---------------------------- MODULE Spec2Model ----------------------------
(***************************************************************************)
(* minivac: the expression engine of an interactive calculator.            *)
(*                                                                         *)
(* The model follows src/engine/parser.js (the second, exported version of *)
(* the tokeniser, symbol table, expression tree and parser, lines 196 to   *)
(* 1106) and the compute engine of src/unnamed/part_000 (the second        *)
(* version, lines 94 to 328).                                              *)
(*                                                                         *)
(* Text is a sequence of one-character strings.  A JavaScript number is    *)
(* modelled by a fraction [n, d] in lowest terms with d > 0 and the way    *)
(* the double relates to it: the double is the fraction (d a power of      *)
(* two), the double nearest to it, or the double a chain of rounded        *)
(* operations gave in its place.  A value the fractions of the modelled    *)
(* range cannot hold (an irrational, an infinity, a NaN, a magnitude       *)
(* beyond MaxNum) is NotRepresentable, and so is the outcome of a step     *)
(* that the rounding of doubles decides: the factorial of a rounded        *)
(* value, the difference of rounded values, the guard of the division at   *)
(* a rounded divisor on the tolerance, a rounded exponent.  A call of run  *)
(* that meets NotRepresentable is outside the model.                       *)
(***************************************************************************)
EXTENDS Integers, Sequences, FiniteSets, TLC

\* Magnitude limit of numerators and denominators of the modelled numbers.
MaxNum == 1000000000

\* Largest operand whose factorial is computed (12! < MaxNum < 13!).
MaxFactArg == 12

\* Nesting depth of function calls the model evaluates; deeper nesting is
\* the engine's stack exhaustion (unbounded recursion of a function body).
MaxCallDepth == 3

\* Number of run calls in one session of the model.
MaxCalls == 4

(***************************************************************************)
(* Numbers                                                                 *)
(***************************************************************************)
Abs(i) == IF i < 0 THEN -i ELSE i

RECURSIVE GCD(_, _)
GCD(a, b) == IF b = 0 THEN a ELSE GCD(b, a % b)

\* A number is a record [n, d, rounding].  With rounding "exact" the double
\* is the fraction n/d itself (d a power of two); with "nearest" it is the
\* double nearest to n/d, which is no double (a decimal literal, or the
\* correctly rounded result of one operation on exact operands); with
\* "about" it is the double that operations on rounded operands gave where
\* the real numbers give n/d.
NotRepresentable == [n |-> 0, d |-> 0, rounding |-> "none"]

\* Math.PI and Math.E: no fractions, told apart by their code.
MathPI == [n |-> 1, d |-> 0, rounding |-> "none"]

MathE == [n |-> 2, d |-> 0, rounding |-> "none"]

IsNum(v) == v.d > 0

IsExact(v) == v.rounding = "exact"

RECURSIVE PowerOfTwo(_)
PowerOfTwo(d) == d = 1 \/ (d > 1 /\ d % 2 = 0 /\ PowerOfTwo(d \div 2))

\* p * q stays within the modelled range.
MulFits(p, q) == p = 0 \/ q = 0 \/ Abs(p) <= MaxNum \div Abs(q)

\* The double of the fraction n/d: n/d itself when it is a double, the
\* double nearest to it otherwise.
Frac(n, d) ==
  IF d = 0 \/ Abs(n) > MaxNum \/ Abs(d) > MaxNum THEN NotRepresentable
  ELSE LET g == GCD(Abs(n), Abs(d))
           s == IF d < 0 THEN -1 ELSE 1
       IN  [n |-> s * (n \div g), d |-> s * (d \div g),
            rounding |-> IF PowerOfTwo(Abs(d) \div g) THEN "exact" ELSE "nearest"]

Num(i) == Frac(i, 1)

\* The result of operations on rounded operands.
About(v) == IF IsNum(v) THEN [v EXCEPT !.rounding = "about"] ELSE v

\* The double an operation on a and b gives where the real numbers give q:
\* the double of q for exact operands (the operations round correctly).
Rounded(a, b, q) == IF IsExact(a) /\ IsExact(b) THEN q ELSE About(q)

NumAbs(a) == [a EXCEPT !.n = Abs(a.n)]

NumNeg(a) == [a EXCEPT !.n = -a.n]

\* The sum of the fractions of a and b.
Sum(a, b) ==
  IF ~MulFits(a.n, b.d) \/ ~MulFits(b.n, a.d) \/ ~MulFits(a.d, b.d)
  THEN NotRepresentable
  ELSE Frac(a.n * b.d + b.n * a.d, a.d * b.d)

\* a + b: adding zero changes nothing; rounded operands of opposite signs
\* cancel, and what is left of their rounding is outside the model.
NumAdd(a, b) ==
  IF ~IsNum(a) \/ ~IsNum(b) THEN NotRepresentable
  ELSE IF b.n = 0 THEN a
  ELSE IF a.n = 0 THEN b
  ELSE IF ~(IsExact(a) /\ IsExact(b)) /\ (a.n > 0) # (b.n > 0) THEN NotRepresentable
  ELSE Rounded(a, b, Sum(a, b))

NumSub(a, b) == IF ~IsNum(b) THEN NotRepresentable ELSE NumAdd(a, NumNeg(b))

\* The product of the fractions of a and b.
Product2(a, b) ==
  LET g1 == GCD(Abs(a.n), b.d)
      g2 == GCD(Abs(b.n), a.d)
      n1 == a.n \div (IF g1 = 0 THEN 1 ELSE g1)
      d2 == b.d \div (IF g1 = 0 THEN 1 ELSE g1)
      n2 == b.n \div (IF g2 = 0 THEN 1 ELSE g2)
      d1 == a.d \div (IF g2 = 0 THEN 1 ELSE g2)
  IN  IF ~MulFits(n1, n2) \/ ~MulFits(d1, d2) THEN NotRepresentable
      ELSE Frac(n1 * n2, d1 * d2)

\* a * b: a factor 0, 1 or -1 involves no rounding.
NumMul(a, b) ==
  IF ~IsNum(a) \/ ~IsNum(b) THEN NotRepresentable
  ELSE IF a.n = 0 \/ b.n = 0 THEN Num(0)
  ELSE IF a = Num(1) THEN b
  ELSE IF b = Num(1) THEN a
  ELSE IF a = Num(-1) THEN NumNeg(b)
  ELSE IF b = Num(-1) THEN NumNeg(a)
  ELSE Rounded(a, b, Product2(a, b))

\* a / b: a divisor 1 or -1 involves no rounding.
NumDiv(a, b) ==
  IF ~IsNum(a) \/ ~IsNum(b) \/ b.n = 0 THEN NotRepresentable
  ELSE IF a.n = 0 THEN Num(0)
  ELSE IF b = Num(1) THEN a
  ELSE IF b = Num(-1) THEN NumNeg(a)
  ELSE IF ~IsNum(Frac(b.d, b.n)) THEN NotRepresentable
  ELSE Rounded(a, b, Product2(a, Frac(b.d, b.n)))

RECURSIVE PowNat(_, _)
PowNat(a, k) ==
  IF k = 0 THEN Num(1)
  ELSE IF ~IsNum(a) THEN NotRepresentable
  ELSE LET r == PowNat(a, k - 1)
       IN  IF ~IsNum(r) THEN NotRepresentable ELSE NumMul(r, a)

\* The power of a to the whole exponent k # 0, by the real numbers.
PowInt(a, k) ==
  IF k > 0 THEN PowNat(a, k) ELSE NumDiv(Num(1), PowNat(a, -k))

\* Math.pow: exact where the power of exact operands is a double, and the
\* first power is the base itself; rounded otherwise.
MathPow(a, b) ==
  IF ~IsNum(a) \/ ~IsNum(b) THEN NotRepresentable
  ELSE IF b.n = 0 THEN Num(1)
  ELSE IF a = Num(1) THEN Num(1)
  ELSE IF ~IsExact(b) THEN NotRepresentable
  ELSE IF a.n = 0 THEN (IF b.n > 0 THEN Num(0) ELSE NotRepresentable)
  ELSE IF b.d # 1 THEN NotRepresentable
  ELSE IF a = Num(-1) THEN (IF b.n % 2 = 0 THEN Num(1) ELSE Num(-1))
  ELSE IF Abs(b.n) > 30 THEN
         \* |a| # 1: beyond the range upwards, or below 1/MaxNum downwards
         NotRepresentable
  ELSE IF b.n = 1 THEN a
  ELSE IF IsExact(PowInt(a, b.n)) THEN PowInt(a, b.n)
  ELSE About(PowInt(a, b.n))

(***************************************************************************)
(* Text                                                                    *)
(***************************************************************************)
Digits == {"0", "1", "2", "3", "4", "5", "6", "7", "8", "9"}

LowerCase ==
  {"a", "b", "c", "d", "e", "f", "g", "h", "i", "j", "k", "l", "m",
   "n", "o", "p", "q", "r", "s", "t", "u", "v", "w", "x", "y", "z"}

\* The characters String.prototype.trim removes: the white space and the
\* line terminators of ECMAScript.  A character with no escape in a string
\* is written by its code.
WhiteSpace ==
  { " ", "\t", "\n", "\r", "\f", "U+000B", "U+00A0", "U+FEFF", "U+1680",
    "U+2000", "U+2001", "U+2002", "U+2003", "U+2004", "U+2005", "U+2006",
    "U+2007", "U+2008", "U+2009", "U+200A", "U+2028", "U+2029", "U+202F",
    "U+205F", "U+3000" }

DigitValue(c) ==
  CASE c = "0" -> 0 [] c = "1" -> 1 [] c = "2" -> 2 [] c = "3" -> 3
    [] c = "4" -> 4 [] c = "5" -> 5 [] c = "6" -> 6 [] c = "7" -> 7
    [] c = "8" -> 8 [] c = "9" -> 9

\* Length of the longest prefix of s made of characters of S.
PrefixLen(s, S) ==
  CHOOSE k \in 0..Len(s) :
    /\ \A i \in 1..k : s[i] \in S
    /\ (k = Len(s) \/ s[k + 1] \notin S)

Drop(s, k) == SubSeq(s, k + 1, Len(s))

Take(s, k) == SubSeq(s, 1, k)

\* String.prototype.trim
Trim(s) ==
  LET a == PrefixLen(s, WhiteSpace)
      t == Drop(s, a)
      b == CHOOSE k \in 0..Len(t) :
             /\ \A i \in (Len(t) - k + 1)..Len(t) : t[i] \in WhiteSpace
             /\ (k = Len(t) \/ t[Len(t) - k] \notin WhiteSpace)
  IN  Take(t, Len(t) - b)

\* String.prototype.indexOf (0-based, -1 when absent)
IndexOf(s, c) ==
  IF \E i \in 1..Len(s) : s[i] = c
  THEN (CHOOSE i \in 1..Len(s) : s[i] = c /\ \A j \in 1..(i - 1) : s[j] # c) - 1
  ELSE -1

\* The value of a run of decimal digits, NotRepresentable beyond the range.
RECURSIVE DigitsValue(_)
DigitsValue(s) ==
  IF Len(s) = 0 THEN 0
  ELSE LET hi == DigitsValue(Take(s, Len(s) - 1))
       IN  IF hi < 0 \/ hi > MaxNum \div 10 THEN -1
           ELSE hi * 10 + DigitValue(s[Len(s)])

RECURSIVE Pow10(_)
Pow10(k) == IF k = 0 THEN 1 ELSE 10 * Pow10(k - 1)

\* Number.parseFloat on the text of an unsigned-number token: the double
\* of the decimal fraction written.
ParseFloat(text) ==
  LET ip == PrefixLen(text, Digits)
      fp == Len(text) - ip - 1
      iv == DigitsValue(Take(text, ip))
  IN  IF ip = Len(text)
      THEN (IF iv < 0 THEN NotRepresentable ELSE Num(iv))
      ELSE IF fp > 9 \/ iv < 0 THEN NotRepresentable
      ELSE LET fv == DigitsValue(Drop(text, ip + 1))
           IN  IF fv < 0 THEN NotRepresentable
               ELSE Sum(Num(iv), Frac(fv, Pow10(fp)))

\* A thrown Error: its message, and the name the message is built with.
Error(msg, arg) == [msg |-> msg, arg |-> arg]

\* The model's own outcome for a call whose values or nesting leave it.
OutsideModel == Error("outside the model", << >>)

(***************************************************************************)
(* Tokens                                                                  *)
(***************************************************************************)
OperatorTokenTypes ==
  {"opAdd", "opSub", "opDiv", "opMul", "opPow", "opFact", "opScientific",
   "opFuncCall"}

OperatorPrecedence(tokenType) ==
  CASE tokenType = "opFuncCall" -> 110
    [] tokenType = "opFact" -> 100
    [] tokenType = "opPow" -> 90
    [] tokenType = "opScientific" -> 90
    [] tokenType = "opDiv" -> 80
    [] tokenType = "opMul" -> 70
    [] tokenType = "opAdd" -> 60
    [] tokenType = "opSub" -> 50

OperatorType(tokenType) ==
  IF tokenType \in {"opFuncCall", "opFact"} THEN "unary" ELSE "binary"

Token(text, type, precedence, opType) ==
  [text |-> text, type |-> type, precedence |-> precedence, opType |-> opType]

\* Faulty variant: the comparison turned round.
hasLowerPrecedenceThan(token, anotherToken) ==
  token.precedence < anotherToken.precedence

hasHigherPrecedenceThan(token, anotherToken) ==
  token.precedence > anotherToken.precedence

isOperator(token) == token.type \in OperatorTokenTypes

isBinaryOperator(token) == isOperator(token) /\ token.opType = "binary"

isUnsignedNumber(token) == token.type = "unsignedNumber"

isPlusOrMinus(token) == token.type = "opAdd" \/ token.type = "opSub"

isFactorial(token) == isOperator(token) /\ token.type = "opFact"

isVariable(token) == token.type = "identifier"

isFunctionCall(token) == isOperator(token) /\ token.type = "opFuncCall"

isOpeningBracket(token) == token.type = "openingBracket"

isClosingBracket(token) == token.type = "closingBracket"

(***************************************************************************)
(* Tokeniser                                                               *)
(***************************************************************************)
\* The matchers in table order: the length each matches at the front of
\* the input (0: no match) and the token type it gives.
NumberMatchLen(input) ==
  LET ip == PrefixLen(input, Digits)
  IN  IF ip = 0 THEN 0
      ELSE IF Len(input) >= ip + 2 /\ input[ip + 1] = "." /\ input[ip + 2] \in Digits
           THEN ip + 1 + PrefixLen(Drop(input, ip + 1), Digits)
           ELSE ip

PunctuationType(c) ==
  CASE c = "(" -> "openingBracket"
    [] c = ")" -> "closingBracket"
    [] c = "+" -> "opAdd"
    [] c = "-" -> "opSub"
    [] c = "*" -> "opMul"
    [] c = "/" -> "opDiv"
    [] c = "!" -> "opFact"
    [] c = "^" -> "opPow"
    [] c = "E" -> "opScientific"
    [] OTHER -> "none"

\* [len, type] of the first matcher that matches, len = 0 when none does.
getMatchers(input) ==
  IF NumberMatchLen(input) > 0
  THEN [len |-> NumberMatchLen(input), type |-> "unsignedNumber"]
  ELSE IF PrefixLen(input, LowerCase) > 0
  THEN [len |-> PrefixLen(input, LowerCase), type |-> "identifier"]
  ELSE IF Len(input) > 0 /\ PunctuationType(input[1]) # "none"
  THEN [len |-> 1, type |-> PunctuationType(input[1])]
  ELSE [len |-> 0, type |-> "none"]

isAFunction(identifierName, availableFunctions) ==
  \E i \in 1..Len(availableFunctions) : availableFunctions[i] = identifierName

\* The Token of a match m of getMatchers: an identifier that names a
\* function becomes a function-call operator; operators get their
\* precedence and arity.
matchedToken(text, matchedType, availableFunctions) ==
  LET tokenType == IF matchedType = "identifier" /\ isAFunction(text, availableFunctions)
                   THEN "opFuncCall" ELSE matchedType
  IN  IF tokenType \in OperatorTokenTypes
      THEN Token(text, tokenType, OperatorPrecedence(tokenType), OperatorType(tokenType))
      ELSE Token(text, tokenType, 0, "unary")

\* The end of _nextMatchingToken, given the first match m.
tokenOrNull(m, input, availableFunctions) ==
  IF m.len > 0
  THEN [kind |-> "token",
        token |-> matchedToken(Take(input, m.len), m.type, availableFunctions)]
  ELSE IF Len(input) > 0
  THEN [kind |-> "err", err |-> Error("Unknown tokens in source.", << >>)]
  ELSE [kind |-> "null"]

\* [kind |-> "token", token], [kind |-> "null"] or [kind |-> "err", err].
nextMatchingToken(input, availableFunctions) ==
  tokenOrNull(getMatchers(input), input, availableFunctions)

\* The loop of tokenise: out is the tokens found so far, input what is left.
RECURSIVE tokeniseLoop(_, _, _)
\* The body of the loop, nextToken being what _nextMatchingToken gave.
tokeniseBody(nextToken, input, availableFunctions, out) ==
  IF nextToken.kind = "err" THEN [ok |-> FALSE, err |-> nextToken.err]
  ELSE IF nextToken.kind = "null" THEN [ok |-> TRUE, tokens |-> out]
  ELSE tokeniseLoop(Trim(Drop(input, Len(nextToken.token.text))),
                    availableFunctions, Append(out, nextToken.token))

tokeniseLoop(input, availableFunctions, out) ==
  tokeniseBody(nextMatchingToken(input, availableFunctions), input,
               availableFunctions, out)

\* [ok, tokens] or [ok, err]
tokenise(input, availableFunctions) ==
  tokeniseLoop(input, availableFunctions, << >>)

(***************************************************************************)
(* Symbol table                                                            *)
(***************************************************************************)
Variable(name, value, isFinal) ==
  [name |-> name, value |-> value, isFinal |-> isFinal]

Callable(name, expression, isFinal) == Variable(name, expression, isFinal)

SymbolsTable(variables, callables) ==
  [variables |-> variables, callables |-> callables]

\* value instanceof Expression
isExpression(value) == "type" \in DOMAIN value

\* Faulty variant: every matching entry written with no regard to isFinal.
setInUnguarded(collection, symbolName, value) ==
  IF \E i \in 1..Len(collection) : collection[i].name = symbolName
  THEN [ok |-> TRUE,
        collection |->
          [i \in 1..Len(collection) |->
             IF collection[i].name = symbolName
             THEN [collection[i] EXCEPT !.value = value]
             ELSE collection[i]]]
  ELSE [ok |-> TRUE,
        collection |-> Append(collection, [name |-> symbolName, value |-> value,
                                           isFinal |-> FALSE])]

\* The forEach of setSymbol over one collection, each matching entry going
\* through Variable.setTo, which throws on a final entry; then the push.
setIn(collection, symbolName, value) ==
  LET matches == {i \in 1..Len(collection) : collection[i].name = symbolName}
      finals == {i \in matches : collection[i].isFinal}
  IN  IF finals # {}
      THEN LET k == CHOOSE i \in finals : \A j \in finals : i <= j
           IN  [ok |-> FALSE,
                err |-> Error("Cannot modify", symbolName),
                collection |->
                  [i \in 1..Len(collection) |->
                     IF i \in matches /\ i < k
                     THEN [collection[i] EXCEPT !.value = value]
                     ELSE collection[i]]]
      ELSE IF matches # {}
      THEN [ok |-> TRUE,
            collection |->
              [i \in 1..Len(collection) |->
                 IF i \in matches THEN [collection[i] EXCEPT !.value = value]
                 ELSE collection[i]]]
      ELSE [ok |-> TRUE,
            collection |-> Append(collection, Variable(symbolName, value, FALSE))]

\* The table with one collection replaced by what setIn left of it.
withCallables(st, r) ==
  IF r.ok THEN [ok |-> TRUE, st |-> [st EXCEPT !.callables = r.collection]]
  ELSE [ok |-> FALSE, err |-> r.err, st |-> [st EXCEPT !.callables = r.collection]]

withVariables(st, r) ==
  IF r.ok THEN [ok |-> TRUE, st |-> [st EXCEPT !.variables = r.collection]]
  ELSE [ok |-> FALSE, err |-> r.err, st |-> [st EXCEPT !.variables = r.collection]]

\* [ok, st] or [ok, err, st]: st is the table the call leaves.
setSymbol(st, symbolName, value) ==
  IF isExpression(value)
  THEN withCallables(st, setIn(st.callables, symbolName, value))
  ELSE withVariables(st, setIn(st.variables, symbolName, value))

hasVariable(st, name) == \E i \in 1..Len(st.variables) : st.variables[i].name = name

hasCallable(st, name) == \E i \in 1..Len(st.callables) : st.callables[i].name = name

\* Total lookups: the first entry of the name (the callers test presence).
variableOf(st, name) ==
  st.variables[CHOOSE i \in 1..Len(st.variables) :
                 /\ st.variables[i].name = name
                 /\ \A j \in 1..(i - 1) : st.variables[j].name # name]

callableOf(st, name) ==
  st.callables[CHOOSE i \in 1..Len(st.callables) :
                 /\ st.callables[i].name = name
                 /\ \A j \in 1..(i - 1) : st.callables[j].name # name]

getVariable(st, name) ==
  IF hasVariable(st, name) THEN [ok |-> TRUE, symbol |-> variableOf(st, name)]
  ELSE [ok |-> FALSE, err |-> Error("is not a stored variable", name)]

getCallable(st, name) ==
  IF hasCallable(st, name) THEN [ok |-> TRUE, symbol |-> callableOf(st, name)]
  ELSE [ok |-> FALSE, err |-> Error("is not a stored function", name)]

callableNames(st) == [i \in 1..Len(st.callables) |-> st.callables[i].name]

(***************************************************************************)
(* Expression tree                                                         *)
(***************************************************************************)
ConstantExpression(value) == [type |-> "Constant", value |-> value]

\* nameIsText is FALSE when the node was built with the Token object in
\* place of its text: no stored name is equal to an object.
VariableExpression(varName, nameIsText) ==
  [type |-> "Variable", varName |-> varName, nameIsText |-> nameIsText]

BinaryExpression(operator, left, right) ==
  [type |-> "Binary", operator |-> operator, left |-> left, right |-> right]

FactorialExpression(operand) == [type |-> "Factorial", operand |-> operand]

FunctionCallExpression(functionName, argument) ==
  [type |-> "FunctionCall", functionName |-> functionName, argument |-> argument]

\* The built-in bodies SinExpr ... RadToDeg, named by their class.
BuiltinExpression(class) == [type |-> "Builtin", class |-> class]

\* 1 / 0.00000001
DivideEpsilonInverse == 100000000

\* Faulty variant: an exact-zero test in place of the tolerance.
exactlyZero(rightVal) == rightVal.n = 0

\* Math.abs(rightVal) < 0.00000001: the doubles compare as their fractions
\* do, the fractions of the model being either equal or far apart.
belowEpsilon(rightVal) ==
  Abs(rightVal.n) <= (rightVal.d - 1) \div DivideEpsilonInverse

\* The rounding of rightVal decides the comparison: a result of rounded
\* operands where the real numbers give 0.00000001 itself.
atEpsilon(rightVal) ==
  /\ rightVal.rounding = "about"
  /\ Abs(rightVal.n) = 1
  /\ rightVal.d = DivideEpsilonInverse

\* [ok, value] or [ok, err]
guidedDivide(leftVal, rightVal) ==
  IF atEpsilon(rightVal) THEN [ok |-> TRUE, value |-> NotRepresentable]
  ELSE IF belowEpsilon(rightVal)
  THEN [ok |-> FALSE, err |-> Error("Cannot divide by zero.", << >>)]
  ELSE [ok |-> TRUE, value |-> NumDiv(leftVal, rightVal)]

\* Faulty variant: value <= 0 in place of value < 0, so 0 is never a base.
RECURSIVE factorialiseNoZeroBase(_)
factorialiseNoZeroBase(value) ==
  IF ~IsNum(value) \/ ~IsExact(value) THEN NotRepresentable
  ELSE IF value.n <= 0 THEN Num(-1)
  ELSE IF value.n \div value.d > MaxFactArg THEN NotRepresentable
  ELSE NumMul(factorialiseNoZeroBase(NumSub(value, Num(1))), value)

\* The comparisons with 0 are those of the argument's fraction when the
\* argument is exact; the recursion on a rounded argument is outside the
\* model.
RECURSIVE factorialise(_)
factorialise(value) ==
  IF ~IsNum(value) \/ ~IsExact(value) THEN NotRepresentable
  ELSE IF value.n < 0 THEN Num(-1)
  ELSE IF value.n = 0 THEN Num(1)
  ELSE IF value.n \div value.d > MaxFactArg THEN NotRepresentable
  ELSE NumMul(factorialise(NumSub(value, Num(1))), value)

\* The switch of BinaryExpression.eval.
applyOperator(operator, leftVal, rightVal) ==
  CASE operator = <<"+">> -> [ok |-> TRUE, value |-> NumAdd(leftVal, rightVal)]
    [] operator = <<"-">> -> [ok |-> TRUE, value |-> NumSub(leftVal, rightVal)]
    [] operator = <<"*">> -> [ok |-> TRUE, value |-> NumMul(leftVal, rightVal)]
    [] operator = <<"/">> -> guidedDivide(leftVal, rightVal)
    [] operator = <<"^">> -> [ok |-> TRUE, value |-> MathPow(leftVal, rightVal)]
    [] operator = <<"E">> ->
         [ok |-> TRUE, value |-> NumMul(leftVal, MathPow(Num(10), rightVal))]
    [] OTHER -> [ok |-> TRUE, value |-> Num(-1)]

\* this.getXValue(symbolsTable) in a built-in body: Expression and its
\* subclasses define no getXValue, so that the call throws a TypeError.
getXValue(st) ==
  [ok |-> FALSE, err |-> Error("TypeError", <<"this.getXValue is not a function">>)]

\* The built-in functions at the arguments where their value is a fraction.
builtinValue(class, x) ==
  IF x = Num(0) /\ class \in {"SinExpr", "ASinExpr", "ASinhExpr", "TanExpr",
                              "ATanExpr", "ATanhExpr", "DegToRad", "RadToDeg"}
  THEN Num(0)
  ELSE IF x = Num(0) /\ class = "CosExpr" THEN Num(1)
  ELSE IF x = Num(1) /\ class \in {"ACosExpr", "ACoshExpr"} THEN Num(0)
  ELSE NotRepresentable

Failed(err, st) == [ok |-> FALSE, err |-> err, st |-> st]

Value(value, st) ==
  IF IsNum(value) THEN [ok |-> TRUE, value |-> value, st |-> st]
  ELSE Failed(OutsideModel, st)

\* eval of every node class.  The table st is threaded through, for a
\* call writes x into it.  [ok, value, st] or [ok, err, st].
RECURSIVE eval(_, _, _)

\* BinaryExpression.eval after both operands: r is the right one's outcome.
applyBinary(operator, l, r) ==
  IF ~r.ok THEN r
  ELSE IF applyOperator(operator, l.value, r.value).ok
  THEN Value(applyOperator(operator, l.value, r.value).value, r.st)
  ELSE Failed(applyOperator(operator, l.value, r.value).err, r.st)

\* BinaryExpression.eval after the left operand, whose outcome is l.
evalRight(e, l, depth) ==
  IF ~l.ok THEN l
  ELSE applyBinary(e.operator, l, eval(e.right, l.st, depth))

evalBinary(e, st, depth) == evalRight(e, eval(e.left, st, depth), depth)

\* FactorialExpression.eval after the operand, whose outcome is o.
evalFactorial(o) == IF ~o.ok THEN o ELSE Value(factorialise(o.value), o.st)

\* FunctionCallExpression.eval from getCallable on: c is the lookup.
evalCallable(c, st, depth) ==
  IF ~c.ok THEN Failed(c.err, st)
  ELSE IF depth >= MaxCallDepth THEN Failed(OutsideModel, st)
  ELSE eval(c.symbol.value, st, depth + 1)

\* FunctionCallExpression.eval after setSymbol("x", argValue), which gave s.
evalBody(e, s, depth) ==
  IF ~s.ok THEN Failed(s.err, s.st)
  ELSE evalCallable(getCallable(s.st, e.functionName), s.st, depth)

\* Faulty variant: the body evaluated with the argument never stored in x.
callWithoutBinding(e, a, depth) ==
  IF ~a.ok THEN a
  ELSE evalBody(e, [ok |-> TRUE, st |-> a.st], depth)

\* The outcome r of a body with the argument stored in x afterwards.
bindLate(r, value) ==
  IF ~r.ok THEN r
  ELSE IF setSymbol(r.st, <<"x">>, value).ok
  THEN Value(r.value, setSymbol(r.st, <<"x">>, value).st)
  ELSE Failed(setSymbol(r.st, <<"x">>, value).err, setSymbol(r.st, <<"x">>, value).st)

\* Faulty variant: the body evaluated before the argument is stored in x,
\* so that it reads what the call before left there.
bindAfterBody(e, a, depth) ==
  IF ~a.ok THEN a
  ELSE bindLate(evalBody(e, [ok |-> TRUE, st |-> a.st], depth), a.value)

\* The outcome r of a call with the variables put back as they were in st.
restoreSlot(r, st) ==
  IF r.ok THEN Value(r.value, [r.st EXCEPT !.variables = st.variables]) ELSE r

\* Faulty variant: the argument bound for the body alone, the variables
\* restored when the call returns.
bindAndRestore(e, a, depth) ==
  IF ~a.ok THEN a
  ELSE restoreSlot(evalBody(e, setSymbol(a.st, <<"x">>, a.value), depth), a.st)

\* FunctionCallExpression.eval after the argument, whose outcome is a.
bindArgument(e, a, depth) ==
  IF ~a.ok THEN a
  ELSE evalBody(e, setSymbol(a.st, <<"x">>, a.value), depth)

evalFunctionCall(e, st, depth) ==
  bindArgument(e, eval(e.argument, st, depth), depth)

evalVariable(e, st) ==
  IF ~e.nameIsText
  THEN Failed(Error("is not a stored variable", <<"[object Object]">>), st)
  ELSE IF getVariable(st, e.varName).ok
  THEN Value(getVariable(st, e.varName).symbol.value, st)
  ELSE Failed(getVariable(st, e.varName).err, st)

evalBuiltin(e, st) ==
  IF getXValue(st).ok THEN Value(builtinValue(e.class, getXValue(st).symbol.value), st)
  ELSE Failed(getXValue(st).err, st)

eval(e, st, depth) ==
  CASE e.type = "Constant" -> Value(e.value, st)
    [] e.type = "Variable" -> evalVariable(e, st)
    [] e.type = "Binary" -> evalBinary(e, st, depth)
    [] e.type = "Factorial" -> evalFactorial(eval(e.operand, st, depth))
    [] e.type = "FunctionCall" -> evalFunctionCall(e, st, depth)
    [] e.type = "Builtin" -> evalBuiltin(e, st)

(***************************************************************************)
(* Parser                                                                  *)
(***************************************************************************)
\* Token indices are the code's, counted from 0: tokens[i] is At(tokens, i).
At(tokens, i) == tokens[i + 1]

ParsingResult(expression, nextStartIndex) ==
  [kind |-> "result", expression |-> expression, nextStartIndex |-> nextStartIndex]

\* What a parsing function gives besides a ParsingResult: null, undefined
\* (a function that ends without a return) and a thrown Error.
Null == [kind |-> "null"]

Undefined == [kind |-> "undefined"]

Throw(msg, arg) == [kind |-> "throw", err |-> Error(msg, arg)]

\* Reading .expression of null or undefined.
TypeError == Throw("TypeError", << >>)

\* The first operator token from startIndex on, Null when there is none.
nextOperator(startIndex, tokens) ==
  LET ops == {i \in startIndex..(Len(tokens) - 1) : isOperator(At(tokens, i))}
  IN  IF ops = {} THEN Null
      ELSE [kind |-> "token",
            token |-> At(tokens, CHOOSE i \in ops : \A j \in ops : i <= j)]

\* The methods of Parser call one another through this.method(...):
\* Parser(method, leftExpression, startIndex, tokens) is that call, with
\* leftExpression read by continueParsing alone.
RECURSIVE Parser(_, _, _, _)

\* return this.continueParsing(left.expression, left.nextStartIndex, tokens)
\* for a left operand some method parsed, or its throw.
continueAfter(left, tokens) ==
  IF left.kind = "throw" THEN left
  ELSE Parser("continueParsing", left.expression, left.nextStartIndex, tokens)

\* A sign: the same as adding to zero or subtracting from zero.
signedOperand(token, right) ==
  IF right.kind = "throw" THEN right
  ELSE ParsingResult(
         BinaryExpression(token.text, ConstantExpression(Num(0)), right.expression),
         right.nextStartIndex)

parse(startIndex, tokens) ==
  IF startIndex >= Len(tokens) THEN Null
  ELSE IF isPlusOrMinus(At(tokens, startIndex))
  THEN continueAfter(
         signedOperand(At(tokens, startIndex),
                       Parser("nextAsRightOperand", Null, startIndex + 1, tokens)),
         tokens)
  ELSE IF isUnsignedNumber(At(tokens, startIndex))
  THEN Parser("continueParsing",
              ConstantExpression(ParseFloat(At(tokens, startIndex).text)),
              startIndex + 1, tokens)
  ELSE IF isVariable(At(tokens, startIndex))
  THEN Parser("continueParsing",
              VariableExpression(At(tokens, startIndex).text, TRUE),
              startIndex + 1, tokens)
  ELSE IF isFunctionCall(At(tokens, startIndex))
  THEN continueAfter(Parser("parseFunctionCall", Null, startIndex, tokens), tokens)
  ELSE IF isOpeningBracket(At(tokens, startIndex))
  THEN continueAfter(Parser("parseBrackets", Null, startIndex, tokens), tokens)
  ELSE Throw("Expression cannot start with", At(tokens, startIndex).text)

\* nextOperator === null || token.hasHigherPrecedenceThan(nextOperator)
evaluateThisFirst(token, nextOp) ==
  IF nextOp.kind = "null" THEN TRUE
  ELSE hasHigherPrecedenceThan(token, nextOp.token)

\* The binary expression of token over leftExpression and the parsed right
\* operand, and on from there; reading right.expression of null or of
\* undefined is a TypeError.
binaryThenContinue(token, leftExpression, right, tokens) ==
  IF right.kind = "throw" THEN right
  ELSE IF right.kind # "result" THEN TypeError
  ELSE Parser("continueParsing",
              BinaryExpression(token.text, leftExpression, right.expression),
              right.nextStartIndex, tokens)

continueParsing(leftExpression, startIndex, tokens) ==
  IF startIndex >= Len(tokens)
  THEN ParsingResult(
         BinaryExpression(<<"+">>, leftExpression, ConstantExpression(Num(0))),
         startIndex)
  ELSE IF isOperator(At(tokens, startIndex)) \/ isClosingBracket(At(tokens, startIndex))
  THEN IF isClosingBracket(At(tokens, startIndex))
       THEN ParsingResult(leftExpression, startIndex)
       ELSE IF isFactorial(At(tokens, startIndex))
       THEN Parser("continueParsing", FactorialExpression(leftExpression),
                   startIndex + 1, tokens)
       ELSE IF isBinaryOperator(At(tokens, startIndex))
       THEN binaryThenContinue(
              At(tokens, startIndex), leftExpression,
              IF evaluateThisFirst(At(tokens, startIndex),
                                   nextOperator(startIndex + 1, tokens))
              THEN Parser("nextAsRightOperand", Null, startIndex + 1, tokens)
              ELSE Parser("parse", Null, startIndex + 1, tokens),
              tokens)
       ELSE Undefined
  ELSE Throw("Expected an operator.", << >>)

\* Faulty variant: a sign is no operand, so that only the sign parse itself
\* takes at the start of an expression is accepted.
nextAsRightOperandUnsigned(startIndex, tokens) ==
  IF startIndex >= Len(tokens)
  THEN Throw("Binary operator requires two operands", << >>)
  ELSE IF isVariable(At(tokens, startIndex)) \/ isUnsignedNumber(At(tokens, startIndex))
  THEN ParsingResult(
         IF isVariable(At(tokens, startIndex))
         THEN VariableExpression(At(tokens, startIndex).text, FALSE)
         ELSE ConstantExpression(ParseFloat(At(tokens, startIndex).text)),
         startIndex + 1)
  ELSE IF isOpeningBracket(At(tokens, startIndex))
  THEN Parser("parseBrackets", Null, startIndex, tokens)
  ELSE IF isFunctionCall(At(tokens, startIndex))
  THEN Parser("parseFunctionCall", Null, startIndex, tokens)
  ELSE Throw("Unexpected operand", At(tokens, startIndex).text)

nextAsRightOperand(startIndex, tokens) ==
  IF startIndex >= Len(tokens)
  THEN Throw("Binary operator requires two operands", << >>)
  ELSE IF isVariable(At(tokens, startIndex)) \/ isUnsignedNumber(At(tokens, startIndex))
  THEN ParsingResult(
         IF isVariable(At(tokens, startIndex))
         THEN VariableExpression(At(tokens, startIndex).text, FALSE)
         ELSE ConstantExpression(ParseFloat(At(tokens, startIndex).text)),
         startIndex + 1)
  ELSE IF isOpeningBracket(At(tokens, startIndex))
  THEN Parser("parseBrackets", Null, startIndex, tokens)
  ELSE IF isFunctionCall(At(tokens, startIndex))
  THEN Parser("parseFunctionCall", Null, startIndex, tokens)
  ELSE IF isPlusOrMinus(At(tokens, startIndex))
  THEN signedOperand(At(tokens, startIndex),
                     Parser("nextAsRightOperand", Null, startIndex + 1, tokens))
  ELSE Throw("Unexpected operand", At(tokens, startIndex).text)

\* parseBrackets after the inner parse, which gave right.
closeBrackets(right, tokens) ==
  IF right.kind = "throw" THEN right
  ELSE IF right.kind = "result"
  THEN IF right.nextStartIndex >= Len(tokens)
          \/ ~isClosingBracket(At(tokens, right.nextStartIndex))
       THEN Throw("Unmatched brackets.", << >>)
       ELSE ParsingResult(right.expression, right.nextStartIndex + 1)
  ELSE Throw("Unmatched brackets.", << >>)

parseBrackets(startIndex, tokens) ==
  closeBrackets(Parser("parse", Null, startIndex + 1, tokens), tokens)

\* parseFunctionCall after the bracketed argument, which gave arg.
callOf(functionToken, arg) ==
  IF arg.kind = "throw" THEN arg
  ELSE ParsingResult(FunctionCallExpression(functionToken.text, arg.expression),
                     arg.nextStartIndex)

parseFunctionCall(startIndex, tokens) ==
  IF startIndex + 3 >= Len(tokens) THEN Throw("Invalid function call.", << >>)
  ELSE callOf(At(tokens, startIndex),
              Parser("parseBrackets", Null, startIndex + 1, tokens))

Parser(method, leftExpression, startIndex, tokens) ==
  CASE method = "parse" -> parse(startIndex, tokens)
    [] method = "continueParsing" -> continueParsing(leftExpression, startIndex, tokens)
    [] method = "nextAsRightOperand" -> nextAsRightOperand(startIndex, tokens)
    [] method = "parseBrackets" -> parseBrackets(startIndex, tokens)
    [] method = "parseFunctionCall" -> parseFunctionCall(startIndex, tokens)

\* this.parse(0, tokens).expression: [ok, expression] or [ok, err].
expressionOf(p) ==
  IF p.kind = "throw" THEN [ok |-> FALSE, err |-> p.err]
  ELSE IF p.kind # "result" THEN [ok |-> FALSE, err |-> TypeError.err]
  ELSE [ok |-> TRUE, expression |-> p.expression]

\* The expression of the tokens t that tokenise gave, or its throw.
parsed(t) ==
  IF ~t.ok THEN [ok |-> FALSE, err |-> t.err]
  ELSE expressionOf(parse(0, t.tokens))

\* evalString after tokenise and parse, which gave the expression x.
evalParsed(x, st) ==
  IF ~x.ok THEN Failed(x.err, st) ELSE eval(x.expression, st, 0)

\* [ok, value, st] or [ok, err, st]
evalString(text, st) ==
  evalParsed(parsed(tokenise(text, callableNames(st))), st)

(***************************************************************************)
(* Compute engine                                                          *)
(***************************************************************************)
getDefaultSymbolsTable ==
  SymbolsTable(
    << Variable(<<"a", "n", "s">>, Num(0), FALSE),
       Variable(<<"p", "r", "e", "a", "n", "s">>, Num(0), FALSE),
       Variable(<<"p", "i">>, MathPI, TRUE),
       Variable(<<"e">>, MathE, TRUE) >>,
    << Callable(<<"s", "i", "n">>, BuiltinExpression("SinExpr"), TRUE),
       Callable(<<"a", "s", "i", "n">>, BuiltinExpression("ASinExpr"), TRUE),
       Callable(<<"a", "s", "i", "n", "h">>, BuiltinExpression("ASinhExpr"), TRUE),
       Callable(<<"c", "o", "s">>, BuiltinExpression("CosExpr"), TRUE),
       Callable(<<"a", "c", "o", "s">>, BuiltinExpression("ACosExpr"), TRUE),
       Callable(<<"a", "c", "o", "s", "h">>, BuiltinExpression("ACoshExpr"), TRUE),
       Callable(<<"t", "a", "n">>, BuiltinExpression("TanExpr"), TRUE),
       Callable(<<"a", "t", "a", "n">>, BuiltinExpression("ATanExpr"), TRUE),
       Callable(<<"a", "t", "a", "n", "h">>, BuiltinExpression("ATanhExpr"), TRUE),
       Callable(<<"r", "a", "d">>, BuiltinExpression("DegToRad"), TRUE),
       Callable(<<"d", "e", "g">>, BuiltinExpression("RadToDeg"), TRUE) >>)

\* text.split("=")[0] and [1]
SplitLeft(text) == Take(text, IndexOf(text, "="))

SplitRight(text) ==
  LET rest == Drop(text, IndexOf(text, "=") + 1)
  IN  IF IndexOf(rest, "=") = -1 THEN rest ELSE Take(rest, IndexOf(rest, "="))

\* /^[a-z]+\(x\)$/
funcRegExp(left) ==
  /\ Len(left) >= 4
  /\ Drop(left, Len(left) - 3) = <<"(", "x", ")">>
  /\ \A i \in 1..(Len(left) - 3) : left[i] \in LowerCase

\* /^[a-z]+$/
varNameRegExp(left) ==
  Len(left) >= 1 /\ \A i \in 1..Len(left) : left[i] \in LowerCase

\* [ok, expression] or [ok, err]
getExpression(text, st) == parsed(tokenise(text, callableNames(st)))

\* Faulty variant: the assignment taken for a query that returned 0, its
\* nominal value written to ans.
assignedAsQuery(s) ==
  IF s.ok THEN Value(Num(0), setSymbol(s.st, <<"a", "n", "s">>, Num(0)).st)
  ELSE Failed(s.err, s.st)

\* The nominal return value 0 of an assignment whose setSymbol gave s.
assigned(s) == IF s.ok THEN Value(Num(0), s.st) ELSE Failed(s.err, s.st)

\* The function-definition branch after _getExpression, which gave x.
defineFunction(functionName, x, st) ==
  IF ~x.ok THEN Failed(x.err, st)
  ELSE assigned(setSymbol(st, functionName, x.expression))

\* The variable branch after evalString, which gave value.
assignVariable(varName, value) ==
  IF ~value.ok THEN value
  ELSE assigned(setSymbol(value.st, varName, value.value))

\* [ok, value, st] or [ok, err, st]
handleAssignment(left, right, st) ==
  IF funcRegExp(left)
  THEN defineFunction(Take(left, IndexOf(left, "(")), getExpression(right, st), st)
  ELSE IF varNameRegExp(left)
  THEN assignVariable(left, evalString(right, st))
  ELSE Failed(Error("Unknown assignment.", << >>), st)

\* setSymbol("ans", ret) after setSymbol("preans", ...), which gave p.
setAns(p, ret) ==
  IF ~p.ok THEN Failed(p.err, p.st)
  ELSE IF setSymbol(p.st, <<"a", "n", "s">>, ret).ok
  THEN Value(ret, setSymbol(p.st, <<"a", "n", "s">>, ret).st)
  ELSE Failed(setSymbol(p.st, <<"a", "n", "s">>, ret).err,
              setSymbol(p.st, <<"a", "n", "s">>, ret).st)

\* Faulty variant: ans written first, so that preans takes the new answer.
rollAnsFirst(ret) ==
  IF ~ret.ok THEN ret
  ELSE Value(ret.value,
             setSymbol(setSymbol(ret.st, <<"a", "n", "s">>, ret.value).st,
                       <<"p", "r", "e", "a", "n", "s">>, ret.value).st)

\* The plain-query branch after evalString, which gave ret: preans takes
\* the number of ans, then ans takes ret.
rollHistory(ret) ==
  IF ~ret.ok THEN ret
  ELSE IF ~getVariable(ret.st, <<"a", "n", "s">>).ok
  THEN Failed(getVariable(ret.st, <<"a", "n", "s">>).err, ret.st)
  ELSE setAns(setSymbol(ret.st, <<"p", "r", "e", "a", "n", "s">>,
                        getVariable(ret.st, <<"a", "n", "s">>).symbol.value),
              ret.value)

\* ComputeEngine.run on the table st: [ok, value, st] or [ok, err, st].
run(text, st) ==
  IF IndexOf(text, "=") # -1
  THEN handleAssignment(Trim(SplitLeft(text)), Trim(SplitRight(text)), st)
  ELSE rollHistory(evalString(text, st))

(***************************************************************************)
(* The engine as a state machine: the symbol table of the one engine       *)
(* object, and the calls of run made so far with what each returned or     *)
(* threw (what the page shows after each line).                            *)
(***************************************************************************)
VARIABLES symbolsTable, log

vars == <<symbolsTable, log>>

Returned(text, value) == [text |-> text, ok |-> TRUE, value |-> value]

Threw(text, err) == [text |-> text, ok |-> FALSE, err |-> err]

\* The lines typed in a session.
SumQuery == <<"3", "+", "3">>

DoubleAns == <<"a", "n", "s", "*", "2">>

DivideByZero == <<"1", "/", "0">>

SignedQuery == <<"-", "5", "+", "3">>

AssignPi == <<"p", "i", "=", "3">>

AssignPiFailing == <<"p", "i", "=", "1", "/", "0">>

DefineSin == <<"s", "i", "n", "(", "x", ")", "=", "1">>

\* The name of a final variable defined as a function, and the name of a
\* final callable assigned as a variable.
DefinePi == <<"p", "i", "(", "x", ")", "=", "1">>

AssignSin == <<"s", "i", "n", "=", "3">>

DefineSquare == <<"f", "(", "x", ")", "=", "x", "^", "2">>

DefineWithAns == <<"f", "(", "x", ")", "=", "x", "+", "a", "n", "s", "*", "1">>

CallSquare == <<"f", "(", "3", ")">>

AssignFailing == <<"y", "=", "f", "(", "3", ")", "/", "0">>

AssignY == <<"y", "=", "5">>

QueryY == <<"y">>

AssignX == <<"x", "=", "5">>

QueryX == <<"x">>

DefineX == <<"x", "(", "x", ")", "=", "1">>

SessionTexts ==
  { SumQuery, DoubleAns, DivideByZero, SignedQuery, AssignPi, AssignPiFailing,
    DefineSin, DefineSquare, DefineWithAns, CallSquare, AssignFailing, AssignY,
    QueryY, AssignX, QueryX, DefineX, DefinePi, AssignSin }

Init ==
  /\ symbolsTable = getDefaultSymbolsTable
  /\ log = << >>

\* The call stayed within the modelled numbers and nesting.
InsideModel(r) == IF r.ok THEN TRUE ELSE r.err # OutsideModel

\* The table and the log after run(text) gave r.
Called(text, r) ==
  /\ InsideModel(r)
  /\ symbolsTable' = r.st
  /\ log' = Append(log, IF r.ok THEN Returned(text, r.value) ELSE Threw(text, r.err))

\* One call of run(text), outcome recorded.
Run(text) ==
  /\ Len(log) < MaxCalls
  /\ Called(text, run(text, symbolsTable))

Next == \E text \in SessionTexts : Run(text)

Spec == Init /\ [][Next]_vars

(***************************************************************************)
(* Properties of sessions                                                  *)
(***************************************************************************)
AnsName == <<"a", "n", "s">>

PreansName == <<"p", "r", "e", "a", "n", "s">>

XName == <<"x">>

\* The history variables of the table.
Ans == variableOf(symbolsTable, AnsName).value

Preans == variableOf(symbolsTable, PreansName).value

\* A line with no "=": run takes it as a plain query.
IsPlainQuery(text) == IndexOf(text, "=") = -1

\* The two sides of an assignment line, as run splits and trims them.
LeftOf(text) == Trim(SplitLeft(text))

RightOf(text) == Trim(SplitRight(text))

\* The name before "(x)" in the left side of a function definition.
DefinedName(left) == Take(left, IndexOf(left, "("))

IsFinalVariable(name) ==
  /\ hasVariable(getDefaultSymbolsTable, name)
  /\ variableOf(getDefaultSymbolsTable, name).isFinal

IsFinalCallable(name) ==
  /\ hasCallable(getDefaultSymbolsTable, name)
  /\ callableOf(getDefaultSymbolsTable, name).isFinal

\* "3+3" then "ans*2" return 6 then 12.
SixThenTwelve ==
  \A i \in 1..(Len(log) - 1) :
    (log[i].text = SumQuery /\ log[i + 1].text = DoubleAns)
    => /\ log[i] = Returned(SumQuery, Num(6))
       /\ log[i + 1] = Returned(DoubleAns, Num(12))

\* One call of a plain query: a result r rolls the history, a failure
\* leaves it.
RollStep ==
  LET call == log'[Len(log')]
  IN  IsPlainQuery(call.text)
      => IF call.ok THEN Ans' = call.value /\ Preans' = Ans
         ELSE Ans' = Ans /\ Preans' = Preans

\* C4: every successful plain query that returns r leaves ans = r and
\* preans = the value ans had just before the call, a failed plain query
\* leaves ans and preans as they were, and "3+3" then "ans*2" return 6
\* then 12.
C4_HistoryRoll == []SixThenTwelve /\ [][RollStep]_vars

\* Reached: "3+3" and "ans*2" have returned 6 and 12, and a failed query
\* after them has left ans = 12 and preans = 6.
C4_Witness ==
  /\ log = <<Returned(SumQuery, Num(6)), Returned(DoubleAns, Num(12)),
             Threw(DivideByZero, Error("Cannot divide by zero.", << >>))>>
  /\ Ans = Num(12)
  /\ Preans = Num(6)

\* The entries created final are where they were, unchanged, and every
\* entry after the default ones is non-final.
FinalsKept ==
  /\ Len(symbolsTable.variables) >= Len(getDefaultSymbolsTable.variables)
  /\ Len(symbolsTable.callables) >= Len(getDefaultSymbolsTable.callables)
  /\ \A i \in 1..Len(symbolsTable.variables) :
       IF i <= Len(getDefaultSymbolsTable.variables)
       THEN getDefaultSymbolsTable.variables[i].isFinal
            => symbolsTable.variables[i] = getDefaultSymbolsTable.variables[i]
       ELSE ~symbolsTable.variables[i].isFinal
  /\ \A i \in 1..Len(symbolsTable.callables) :
       IF i <= Len(getDefaultSymbolsTable.callables)
       THEN getDefaultSymbolsTable.callables[i].isFinal
            => symbolsTable.callables[i] = getDefaultSymbolsTable.callables[i]
       ELSE ~symbolsTable.callables[i].isFinal

\* The name an assignment or a definition targets.
TargetOf(text) ==
  IF funcRegExp(LeftOf(text)) THEN DefinedName(LeftOf(text)) ELSE LeftOf(text)

\* The line is an assignment or a definition of a well-formed left side.
IsStatement(text) ==
  ~IsPlainQuery(text) /\ (funcRegExp(LeftOf(text)) \/ varNameRegExp(LeftOf(text)))

\* One call of an assignment or definition whose target was created final,
\* as a variable or as a callable: it fails with "Cannot modify <name>".
FinalTargetRefused ==
  LET call == log'[Len(log')]
  IN  (/\ IsStatement(call.text)
       /\ (IsFinalVariable(TargetOf(call.text)) \/ IsFinalCallable(TargetOf(call.text))))
      => call = Threw(call.text, Error("Cannot modify", TargetOf(call.text)))

\* C5 as stated: after any calls every entry created final (pi, e, the
\* built-in callables) holds its original value and is final, entries
\* inserted by setSymbol are non-final, and an assignment or definition
\* that targets a name created final fails with "Cannot modify <name>".
C5_FinalProtection == []FinalsKept /\ [][FinalTargetRefused]_vars

\* The right-hand side of the statement as the call takes it: evaluated
\* for an assignment, parsed for a definition.  [ok, ...] or [ok, err].
RightSide(text, st) ==
  IF funcRegExp(LeftOf(text)) THEN getExpression(RightOf(text), st)
  ELSE evalString(RightOf(text), st)

\* The target is final in the collection the left side selects: the
\* variables for v=..., the callables for f(x)=...
FinalInOwnCollection(text) ==
  IF funcRegExp(LeftOf(text)) THEN IsFinalCallable(TargetOf(text))
  ELSE IsFinalVariable(TargetOf(text))

\* One call of an assignment or definition.  A target final in its own
\* collection: the call fails, with the error of its right-hand side when
\* that fails, with "Cannot modify <name>" otherwise.  A target final in
\* the other collection alone, the right-hand side without error: the call
\* returns 0.
FinalTargetStep ==
  LET call == log'[Len(log')]
      right == RightSide(call.text, symbolsTable)
      name == TargetOf(call.text)
  IN  IsStatement(call.text)
      => /\ FinalInOwnCollection(call.text)
            => call = Threw(call.text,
                            IF right.ok THEN Error("Cannot modify", name)
                            ELSE right.err)
         /\ (/\ ~FinalInOwnCollection(call.text)
             /\ IsFinalVariable(name) \/ IsFinalCallable(name)
             /\ right.ok)
            => call = Returned(call.text, Num(0))

\* C5, amended: after any calls every entry created final holds its
\* original value and is final, and entries inserted by setSymbol are
\* non-final; an assignment to a final variable or a definition of a final
\* callable fails, with "Cannot modify <name>" when its right-hand side is
\* evaluated (parsed) without error and with the error of the right-hand
\* side otherwise; an assignment to the name of a final callable and a
\* definition under the name of a final variable are not refused.
C5_FinalProtectionInOwnCollection == []FinalsKept /\ [][FinalTargetStep]_vars

\* Reached: "pi=3" and "sin(x)=1" were refused, "pi=1/0" failed on its
\* division, and "sin=3" stored a variable beside the final callable.
C5_Witness ==
  /\ log = <<Threw(AssignPi, Error("Cannot modify", <<"p", "i">>)),
             Threw(DefineSin, Error("Cannot modify", <<"s", "i", "n">>)),
             Threw(AssignPiFailing, Error("Cannot divide by zero.", << >>)),
             Returned(AssignSin, Num(0))>>
  /\ variableOf(symbolsTable, <<"p", "i">>) = Variable(<<"p", "i">>, MathPI, TRUE)
  /\ variableOf(symbolsTable, <<"s", "i", "n">>) = Variable(<<"s", "i", "n">>, Num(3), FALSE)
  /\ callableOf(symbolsTable, <<"s", "i", "n">>)
       = callableOf(getDefaultSymbolsTable, <<"s", "i", "n">>)

\* C6: whenever run fails on an assignment or a function definition, the
\* symbol table after the call, variables and callables, is the table
\* before it.
C6_FailedAssignmentLeavesTable ==
  [][LET call == log'[Len(log')]
     IN  (~IsPlainQuery(call.text) /\ ~call.ok) => symbolsTable' = symbolsTable]_vars

\* The round trips: a line that stores, the query that reads back, and the
\* number the query is to return.
RoundTrips ==
  { [store |-> AssignY, query |-> QueryY, value |-> 5, function |-> FALSE],
    [store |-> AssignX, query |-> QueryX, value |-> 5, function |-> FALSE],
    [store |-> DefineSquare, query |-> CallSquare, value |-> 9, function |-> TRUE] }

\* What the round trip asks of the stored name: a variable is not final and
\* not the name of a stored callable, a function is not a final callable.
Storable(rt) ==
  IF rt.function
  THEN ~IsFinalCallable(DefinedName(LeftOf(rt.store)))
  ELSE /\ ~IsFinalVariable(LeftOf(rt.store))
       /\ ~hasCallable(symbolsTable, LeftOf(rt.store))

\* The last two calls were the round trip rt.
LastTwoWere(rt) ==
  /\ Len(log) >= 2
  /\ log[Len(log) - 1].text = rt.store
  /\ log[Len(log)].text = rt.query

\* C7 as stated: v=<rhs> then v returns the number of rhs for a storable
\* variable v, and f(x)=x^2 then f(3) returns 9 for every function name f
\* that is not a final callable.
C7_RoundTrip ==
  \A rt \in RoundTrips :
    (LastTwoWere(rt) /\ Storable(rt))
    => log[Len(log)] = Returned(rt.query, Num(rt.value))

\* C7, amended: the same, the function round trip being asked only when x
\* is not the name of a stored callable.
C7_RoundTripUnlessXIsCallable ==
  \A rt \in RoundTrips :
    (/\ LastTwoWere(rt)
     /\ Storable(rt)
     /\ rt.function => ~hasCallable(symbolsTable, XName))
    => /\ log[Len(log) - 1].ok
       /\ log[Len(log)] = Returned(rt.query, Num(rt.value))

\* Reached: f(x)=x^2 was stored and f(3) returned 9, after y=5.
C7_Witness ==
  /\ Len(log) = 3
  /\ log[1].text = AssignY
  /\ log[2] = Returned(DefineSquare, Num(0))
  /\ log[3] = Returned(CallSquare, Num(9))
  /\ ~hasCallable(symbolsTable, XName)

\* The names of the identifier tokens.
IdentifiersOf(tokens) ==
  {tokens[i].text : i \in {j \in 1..Len(tokens) : isVariable(tokens[j])}}

\* The names e.eval(st) passes to getVariable, in the order of the code: a
\* binary expression evaluates its left operand, then its right one; a call
\* evaluates its argument, stores it in x, looks the callable up and
\* evaluates its body; a throw ends the evaluation.  A variable built from
\* a Token passes the Token, which no name equals; a built-in body throws
\* before any lookup.
RECURSIVE NamesRead(_, _, _)

\* The body of functionName evaluated on st, where x is bound already.
BodyNames(functionName, st, depth) ==
  IF ~getCallable(st, functionName).ok \/ depth >= MaxCallDepth THEN {}
  ELSE NamesRead(getCallable(st, functionName).symbol.value, st, depth + 1)

\* FunctionCallExpression.eval after setSymbol("x", argValue), which gave s.
CallNames(e, s, depth) ==
  IF ~s.ok THEN {} ELSE BodyNames(e.functionName, s.st, depth)

\* What follows the first part of an evaluation, whose outcome is r.
NamesAfter(r, names) == IF r.ok THEN names ELSE {}

NamesRead(e, st, depth) ==
  CASE e.type = "Constant" -> {}
    [] e.type = "Variable" ->
         {IF e.nameIsText THEN e.varName ELSE <<"[object Object]">>}
    [] e.type = "Binary" ->
         NamesRead(e.left, st, depth)
           \cup NamesAfter(eval(e.left, st, depth),
                           NamesRead(e.right, eval(e.left, st, depth).st, depth))
    [] e.type = "Factorial" -> NamesRead(e.operand, st, depth)
    [] e.type = "FunctionCall" ->
         NamesRead(e.argument, st, depth)
           \cup NamesAfter(eval(e.argument, st, depth),
                           CallNames(e, setSymbol(eval(e.argument, st, depth).st,
                                                  <<"x">>,
                                                  eval(e.argument, st, depth).value),
                                     depth))
    [] e.type = "Builtin" -> {}

\* The names e.eval(st) reads; inside tells whether the evaluation stays in
\* the model (where it does not, the names are those read up to there).
VariablesOf(e, st, depth) ==
  [names |-> NamesRead(e, st, depth), inside |-> InsideModel(eval(e, st, depth))]

\* The same of the body of functionName, evaluated on st with x bound.
BodyVariables(functionName, st, depth) ==
  [names |-> BodyNames(functionName, st, depth),
   inside |-> InsideModel(evalCallable(getCallable(st, functionName), st, depth))]

\* The evaluation of the expression x that evalString parsed reads neither
\* ans nor preans.
ReadsNoHistoryParsed(x, st) ==
  x.ok => /\ VariablesOf(x.expression, st, 0).inside
          /\ VariablesOf(x.expression, st, 0).names \cap {AnsName, PreansName} = {}

\* The query names none of ans, preans and x, and calls no function whose
\* body reads ans or preans, itself or through the functions it calls.
ReadsNoHistory(text, st) ==
  LET t == tokenise(text, callableNames(st))
  IN  t.ok
      => /\ IdentifiersOf(t.tokens) \cap {AnsName, PreansName, XName} = {}
         /\ ReadsNoHistoryParsed(parsed(t), st)

\* C8 as stated: two consecutive calls of the same plain query return the
\* same number.
C8_Idempotent ==
  \A i \in 1..(Len(log) - 1) :
    (IsPlainQuery(log[i].text) /\ log[i + 1].text = log[i].text)
    => log[i + 1] = log[i]

\* One call that repeats the plain query before it.
RepeatStep ==
  IF Len(log) = 0 THEN TRUE
  ELSE (/\ IsPlainQuery(log[Len(log)].text)
        /\ log'[Len(log')].text = log[Len(log)].text
        /\ ReadsNoHistory(log[Len(log)].text, symbolsTable))
       => log'[Len(log')] = log[Len(log)]

\* C8, amended: two consecutive calls of the same plain query have the same
\* outcome when the query names none of ans, preans and x and calls no
\* function whose body reads ans or preans.
C8_IdempotentWithoutHistory == [][RepeatStep]_vars

\* Reached: f(3) returned 9 twice in a row.
C8_Witness ==
  /\ log = <<Returned(DefineSquare, Num(0)), Returned(CallSquare, Num(9)),
             Returned(CallSquare, Num(9))>>
  /\ ReadsNoHistory(CallSquare, symbolsTable)

(***************************************************************************)
(* Arithmetic lines: one expression of unsigned literals, typed into a     *)
(* fresh engine or after a first query has filled the history.             *)
(***************************************************************************)
\* Largest literal operand of the arithmetic lines.
MaxOperand == 4

Operands == 1..MaxOperand

DigitChar(d) ==
  CASE d = 0 -> "0" [] d = 1 -> "1" [] d = 2 -> "2" [] d = 3 -> "3"
    [] d = 4 -> "4" [] d = 5 -> "5" [] d = 6 -> "6" [] d = 7 -> "7"
    [] d = 8 -> "8" [] d = 9 -> "9"

RECURSIVE NatText(_)
NatText(n) ==
  IF n < 10 THEN <<DigitChar(n)>>
  ELSE NatText(n \div 10) \o <<DigitChar(n % 10)>>

BinaryOps == {"+", "-", "*", "/", "^", "E"}

Prec(op) == OperatorPrecedence(PunctuationType(op))

\* a op1 b op2 c
Chain3(a, op1, b, op2, c) ==
  NatText(a) \o <<op1>> \o NatText(b) \o <<op2>> \o NatText(c)

\* (a op1 b) op2 c
Bracketed3(a, op1, b, op2, c) ==
  <<"(">> \o NatText(a) \o <<op1>> \o NatText(b) \o <<")", op2>> \o NatText(c)

\* a p b q c r d
Chain4(a, p, b, q, c, r, d) ==
  Chain3(a, p, b, q, c) \o <<r>> \o NatText(d)

\* a * b! + c
FactorialInside(a, b, c) ==
  NatText(a) \o <<"*">> \o NatText(b) \o <<"!", "+">> \o NatText(c)

\* n!  and  (-n)!
FactorialOf(n) == NatText(n) \o <<"!">>

FactorialOfNegative(n) == <<"(", "-">> \o NatText(n) \o <<")", "!">>

\* The divisors of the division lines: the text after the "/", and the
\* fraction num/den it denotes.
Divisors ==
  { [text |-> <<"0">>, num |-> 0, den |-> 1],
    [text |-> <<"0", ".", "0", "0", "0", "0", "0", "0", "0", "0", "1">>,
     num |-> 1, den |-> 1000000000],
    [text |-> <<"-", "0", ".", "0", "0", "0", "0", "0", "0", "0", "0", "1">>,
     num |-> -1, den |-> 1000000000],
    [text |-> <<"0", ".", "0", "0", "0", "0", "0", "0", "0", "1">>,
     num |-> 1, den |-> 100000000],
    [text |-> <<"0", ".", "0", "0", "0", "0", "0", "0", "0", "2">>,
     num |-> 1, den |-> 50000000],
    [text |-> <<"0", ".", "0", "0", "0", "1">>, num |-> 1, den |-> 10000],
    [text |-> <<"-", "2">>, num |-> -2, den |-> 1],
    [text |-> <<"2">>, num |-> 2, den |-> 1] }

DivisionBy(a, dv) == NatText(a) \o <<"/">> \o dv.text

ChainTexts ==
  {Chain3(a, op, b, op, c) : a \in Operands, b \in Operands, c \in Operands,
                             op \in {"^", "-", "/"}}

PrecedenceTexts ==
  UNION {{Chain3(a, "+", b, "*", c), Chain3(a, "*", b, "+", c),
          Bracketed3(a, "+", b, "*", c)} :
         a \in Operands, b \in Operands, c \in Operands}

OperatorTriples ==
  {t \in BinaryOps \X BinaryOps \X BinaryOps :
     Prec(t[2]) > Prec(t[1]) /\ Prec(t[1]) > Prec(t[3])}

MixedTexts ==
  {Chain4(a, t[1], b, t[2], c, t[3], d) :
     a \in Operands, b \in Operands, c \in Operands, d \in Operands,
     t \in OperatorTriples}
  \cup {FactorialInside(a, b, c) : a \in Operands, b \in Operands, c \in Operands}

FactorialTexts ==
  {FactorialOf(n) : n \in 0..MaxFactArg}
  \cup {FactorialOfNegative(n) : n \in Operands}

DivisionTexts == {DivisionBy(a, dv) : a \in Operands, dv \in Divisors}

ArithTexts ==
  ChainTexts \cup PrecedenceTexts \cup MixedTexts \cup FactorialTexts
  \cup DivisionTexts

\* A first query, so that ans is no longer its initial 0.
WarmUp == log = << >> /\ Run(SumQuery)

\* The arithmetic line, the last call of the behaviour.
Arith(text) ==
  /\ \A i \in 1..Len(log) : log[i].text = SumQuery
  /\ Run(text)

NextArith == WarmUp \/ \E text \in ArithTexts : Arith(text)

SpecArith == Init /\ [][NextArith]_vars

(***************************************************************************)
(* Properties of arithmetic lines                                          *)
(***************************************************************************)
\* The number a binary operator yields by its mathematical meaning.
Op(op, u, v) ==
  CASE op = "+" -> NumAdd(u, v)
    [] op = "-" -> NumSub(u, v)
    [] op = "*" -> NumMul(u, v)
    [] op = "/" -> NumDiv(u, v)
    [] op = "^" -> MathPow(u, v)
    [] op = "E" -> NumMul(u, MathPow(Num(10), v))

\* 1 * 2 * ... * n
RECURSIVE Product(_)
Product(n) == IF n = 0 THEN 1 ELSE n * Product(n - 1)

\* The line is  a op1 b op2 c ...  over one-digit operands: n operands.
IsChain(text, n) ==
  /\ Len(text) = 2 * n - 1
  /\ \A i \in 1..Len(text) :
       IF i % 2 = 1 THEN text[i] \in Digits ELSE text[i] \in BinaryOps

\* The k-th operand of a chain, and the operator after it.
OperandAt(text, k) == DigitValue(text[2 * k - 1])

OperatorAt(text, k) == text[2 * k]

\* (a op b) op c
LeftToRight(text) ==
  Op(OperatorAt(text, 2),
     Op(OperatorAt(text, 1), Num(OperandAt(text, 1)), Num(OperandAt(text, 2))),
     Num(OperandAt(text, 3)))

\* C1: a chain of one operator associates left to right: a^b^c returns
\* (a^b)^c, a-b-c returns (a-b)-c and a/b/c returns (a/b)/c.
C1_LeftAssociative ==
  \A i \in 1..Len(log) :
    (/\ IsChain(log[i].text, 3)
     /\ OperatorAt(log[i].text, 1) = OperatorAt(log[i].text, 2)
     /\ OperatorAt(log[i].text, 1) \in {"^", "-", "/"}
     /\ IsNum(LeftToRight(log[i].text)))
    => log[i] = Returned(log[i].text, LeftToRight(log[i].text))

\* C2: multiplication binds tighter than addition and brackets override
\* precedence: a+b*c returns a+(b*c), a*b+c returns (a*b)+c and (a+b)*c
\* returns (a+b)*c.
C2_Precedence ==
  \A i \in 1..Len(log) : \A a \in Operands, b \in Operands, c \in Operands :
    /\ log[i].text = Chain3(a, "+", b, "*", c)
       => log[i] = Returned(log[i].text, Num(a + b * c))
    /\ log[i].text = Chain3(a, "*", b, "+", c)
       => log[i] = Returned(log[i].text, Num(a * b + c))
    /\ log[i].text = Bracketed3(a, "+", b, "*", c)
       => log[i] = Returned(log[i].text, Num((a + b) * c))

\* Reached: (2+3)*4 returned 20 after the first query.
C2_Witness ==
  log = <<Returned(SumQuery, Num(6)),
          Returned(Bracketed3(2, "+", 3, "*", 4), Num(20))>>

\* (a p (b q c)) r d
TightestFirst(text) ==
  Op(OperatorAt(text, 3),
     Op(OperatorAt(text, 1), Num(OperandAt(text, 1)),
        Op(OperatorAt(text, 2), Num(OperandAt(text, 2)), Num(OperandAt(text, 3)))),
     Num(OperandAt(text, 4)))

\* C3: a tighter operator takes only its own operands: with
\* precedence(q) > precedence(p) > precedence(r), a p b q c r d returns
\* ((a p (b q c)) r d), and a*b!+c returns (a*(b!))+c.
C3_TightOperatorOwnOperands ==
  \A i \in 1..Len(log) :
    /\ (/\ IsChain(log[i].text, 4)
        /\ Prec(OperatorAt(log[i].text, 2)) > Prec(OperatorAt(log[i].text, 1))
        /\ Prec(OperatorAt(log[i].text, 1)) > Prec(OperatorAt(log[i].text, 3))
        /\ IsNum(TightestFirst(log[i].text)))
       => log[i] = Returned(log[i].text, TightestFirst(log[i].text))
    /\ \A a \in Operands, b \in Operands, c \in Operands :
         log[i].text = FactorialInside(a, b, c)
         => log[i] = Returned(log[i].text, Num(a * Product(b) + c))

\* C9: n! is 1*2*...*n for every integer n >= 0, and the factorial of a
\* negative operand is -1, with no error.
C9_Factorial ==
  \A i \in 1..Len(log) :
    /\ \A n \in 0..MaxFactArg :
         log[i].text = FactorialOf(n)
         => log[i] = Returned(log[i].text, Num(Product(n)))
    /\ \A n \in Operands :
         log[i].text = FactorialOfNegative(n)
         => log[i] = Returned(log[i].text, Num(-1))

\* Reached: 5! returned 120.
C9_Witness == log = <<Returned(FactorialOf(5), Num(120))>>

\* |num/den| < 1e-8
BelowTolerance(dv) == Abs(dv.num) * 100000000 < dv.den

\* One call of a division a/right: it fails with "Cannot divide by zero."
\* and leaves ans and preans when |right| < 1e-8, and returns a/right
\* otherwise.
DivisionStep ==
  \A a \in Operands, dv \in Divisors :
    LET call == log'[Len(log')]
    IN  call.text = DivisionBy(a, dv)
        => IF BelowTolerance(dv)
           THEN /\ call = Threw(call.text, Error("Cannot divide by zero.", << >>))
                /\ Ans' = Ans
                /\ Preans' = Preans
           ELSE call = Returned(call.text,
                                Rounded(Num(a), Frac(dv.num, dv.den),
                                        Frac(a * dv.den, dv.num)))

\* C10: left/right fails with "Cannot divide by zero." exactly when
\* |right| < 1e-8 and returns left/right otherwise, and a failed division
\* does not roll ans and preans.
C10_DivisionGuard == [][DivisionStep]_vars

\* Reached: after 3+3, 1/0.000000001 failed and ans is still 6.
C10_Witness ==
  /\ Len(log) = 2
  /\ log[1] = Returned(SumQuery, Num(6))
  /\ \E dv \in Divisors :
       /\ dv.num = 1
       /\ dv.den = 1000000000
       /\ log[2] = Threw(DivisionBy(1, dv), Error("Cannot divide by zero.", << >>))
  /\ Ans = Num(6)
  /\ Preans = Num(0)

(***************************************************************************)
(* Lines about names: assignments, definitions and the queries that read   *)
(* what they stored, in sessions of MaxLines lines.                        *)
(***************************************************************************)
\* Number of run calls in one session about names.
MaxLines == 3

AssignAns == <<"a", "n", "s", "=", "7">>

RightOperandProduct == <<"2", "*", "x">>

RightOperandSum == <<"2", "+", "x">>

LeftOperandProduct == <<"x", "*", "2">>

LeftOperandSum == <<"x", "+", "2">>

\* g calls f before it reads x.
DefineOuter == <<"g", "(", "x", ")", "=", "f", "(", "2", ")", "+", "x", "+", "0">>

CallOuter == <<"g", "(", "5", ")">>

\* A body that cannot be evaluated.
DefineUnevaluated == <<"h", "(", "x", ")", "=", "x", "/", "0">>

NameTexts ==
  { SumQuery, AssignAns, AssignY, AssignX, RightOperandProduct, RightOperandSum,
    LeftOperandProduct, LeftOperandSum, DefineSquare, DefineOuter, CallOuter,
    CallSquare, DefineUnevaluated, DefinePi, AssignSin }

\* One call of run(text) in a session about names.
Line(text) ==
  /\ Len(log) < MaxLines
  /\ Called(text, run(text, symbolsTable))

NextNames == \E text \in NameTexts : Line(text)

SpecNames == Init /\ [][NextNames]_vars

(***************************************************************************)
(* Properties of lines about names                                         *)
(***************************************************************************)
\* One successful call of an assignment or definition: it returns 0, ans
\* and preans are as before unless they are the variable assigned, and a
\* definition leaves every variable as it was.
AssignmentStep ==
  LET call == log'[Len(log')]
      left == LeftOf(call.text)
  IN  (~IsPlainQuery(call.text) /\ call.ok)
      => /\ call.value = Num(0)
         /\ (funcRegExp(left) \/ left # AnsName) => Ans' = Ans
         /\ (funcRegExp(left) \/ left # PreansName) => Preans' = Preans
         /\ funcRegExp(left) => symbolsTable'.variables = symbolsTable.variables

\* C11: every successful run of a variable assignment or function
\* definition returns 0 and leaves ans and preans unchanged (unless the
\* assigned name is itself ans or preans), and a function definition does
\* not evaluate its body and changes no variable at all.
C11_AssignmentIsStatement == [][AssignmentStep]_vars

\* Reached: after 3+3, y=5 and h(x)=x/0 returned 0, the body x/0 was stored
\* unevaluated, and ans is still 6.
C11_Witness ==
  /\ log = <<Returned(SumQuery, Num(6)), Returned(AssignY, Num(0)),
             Returned(DefineUnevaluated, Num(0))>>
  /\ hasCallable(symbolsTable, <<"h">>)
  /\ Ans = Num(6)
  /\ Preans = Num(0)

(***************************************************************************)
(* Lines about syntax: signs, brackets, white space and malformed lines,   *)
(* typed into a fresh engine, MaxTyped lines in a session.                 *)
(***************************************************************************)
\* Number of run calls in one session about syntax.
MaxTyped == 2

\* Longest run of consecutive signs before an operand.
MaxSigns == 3

\* The runs of one to MaxSigns signs.
SignRuns == UNION {[1..n -> {"+", "-"}] : n \in 1..MaxSigns}

\* A run of signs before the literal 5, at the start of the line and after
\* the operator of 2*.
SignedLiteral(signs) == signs \o <<"5">>

SignedFactor(signs) == <<"2", "*">> \o signs \o <<"5">>

DoubleSign == <<"-", "-", "5">>

SignTexts ==
  {SignedLiteral(signs) : signs \in SignRuns}
    \cup {SignedFactor(signs) : signs \in {r \in SignRuns : Len(r) <= 2}}

OpenOnly == <<"(", "1", "+", "2">>

CloseOnly == <<"1", "+", "2", ")">>

CloseEarly == <<"1", ")", "+", "5">>

Balanced == <<"(", "1", "+", "2", ")">>

OpenTwice == <<"(", "(", "1", "+", "2", ")">>

CloseTwice == <<"(", "1", "+", "2", ")", ")">>

BracketTexts == {OpenOnly, CloseOnly, CloseEarly, Balanced, OpenTwice, CloseTwice}

NoSpace == <<"1", "+", "2">>

LeadingSpace == <<" ", "1", "+", "2">>

InnerSpace == <<"1", " ", "+", " ", "2">>

TrailingSpace == <<"1", "+", "2", " ">>

SpaceAround == <<" ", "1", " ", "+", " ", "2", " ">>

\* Tabs between the tokens.
TabInside == <<"1", "\t", "+", "\t", "2">>

SpaceTexts ==
  {NoSpace, LeadingSpace, InnerSpace, TrailingSpace, SpaceAround, TabInside}

Empty == << >>

OperandThenCall == <<"1", "s", "i", "n", "(", "0", ")">>

MissingOperand == <<"1", "+">>

UnknownToken == <<"1", "$">>

UnknownVariable == <<"q">>

StartsWithOperator == <<"*", "2">>

CallWithoutArgument == <<"s", "i", "n", "(">>

TwoOperands == <<"1", " ", "2">>

UnknownAssignment == <<"2", "=", "3">>

MalformedTexts ==
  { Empty, OperandThenCall, MissingOperand, UnknownToken, UnknownVariable,
    StartsWithOperator, CallWithoutArgument, TwoOperands, UnknownAssignment,
    AssignPi, DivideByZero }

SyntaxTexts == SignTexts \cup BracketTexts \cup SpaceTexts \cup MalformedTexts

\* One call of run(text) in a session about syntax.
Typed(text) ==
  /\ Len(log) < MaxTyped
  /\ Called(text, run(text, symbolsTable))

NextSyntax == \E text \in SyntaxTexts : Typed(text)

SpecSyntax == Init /\ [][NextSyntax]_vars

(***************************************************************************)
(* Properties of lines about syntax                                        *)
(***************************************************************************)
\* The sign a run of signs amounts to: -1 for an odd number of "-".
RECURSIVE SignOf(_)
SignOf(signs) ==
  IF signs = << >> THEN 1
  ELSE (IF Head(signs) = "-" THEN -1 ELSE 1) * SignOf(Tail(signs))

\* The messages of the syntax errors the parser and the engine throw.
SyntaxMessages ==
  { "Expression cannot start with", "Expected an operator.",
    "Binary operator requires two operands", "Unexpected operand",
    "Unmatched brackets.", "Invalid function call.", "Unknown assignment." }

\* C12 as stated: run("--5") fails with a syntax error, two consecutive
\* leading signs being rejected.
C12_DoubleSignRejected ==
  \A i \in 1..Len(log) :
    log[i].text = DoubleSign => (~log[i].ok /\ log[i].err.msg \in SyntaxMessages)

\* C12, amended: consecutive signs are accepted before a literal, each "-"
\* negating what follows, at the start of a line and after an operator;
\* run("--5") returns 5.
C12_SignsAccumulate ==
  \A i \in 1..Len(log) :
    \A signs \in SignRuns :
      /\ log[i].text = SignedLiteral(signs)
         => log[i] = Returned(log[i].text, Num(SignOf(signs) * 5))
      /\ (Len(signs) <= 2 /\ log[i].text = SignedFactor(signs))
         => log[i] = Returned(log[i].text, Num(2 * SignOf(signs) * 5))

\* Reached: --5 returned 5 and 2*--5 returned 10.
C12_Witness ==
  log = <<Returned(DoubleSign, Num(5)),
          Returned(<<"2", "*", "-", "-", "5">>, Num(10))>>

\* The queries that read x beside the literal 2, by the side x stands on.
OperandQueries ==
  { [text |-> RightOperandProduct, op |-> "*"], [text |-> RightOperandSum, op |-> "+"],
    [text |-> LeftOperandProduct, op |-> "*"], [text |-> LeftOperandSum, op |-> "+"] }

\* One call of such a query while x is a stored variable: it returns the
\* product, or the sum, of 2 and the value of x.
OperandStep ==
  LET call == log'[Len(log')]
  IN  \A q \in OperandQueries :
        (call.text = q.text /\ hasVariable(symbolsTable, XName))
        => call = Returned(q.text, Op(q.op, Num(2), variableOf(symbolsTable, XName).value))

\* C13: a variable reference evaluates to the stored value of the variable
\* wherever it stands: with x stored, 2*x and 2+x (x the right operand of
\* the last operator) return what x*2 and x+2 return; after x=5, 2*x
\* returns 10.
C13_VariableAnywhere == [][OperandStep]_vars

\* The variable x of the table.
Slot == variableOf(symbolsTable, XName).value

\* One successful call of f(3), f being x^2, or of g(5), g being f(2)+x+0:
\* f(3) returns 9 and leaves x = 3; in g(5) the x read after the call of
\* f(2) is 2 and no longer 5, so that g(5) returns 4 + 2, and x is left
\* with 2, the argument of the call evaluated last.
SlotStep ==
  LET call == log'[Len(log')]
  IN  /\ (call.text = CallSquare /\ call.ok)
         => /\ call.value = Num(9)
            /\ hasVariable(symbolsTable', XName)
            /\ Slot' = Num(3)
      /\ (call.text = CallOuter /\ call.ok)
         => /\ call.value = Num(6)
            /\ hasVariable(symbolsTable', XName)
            /\ Slot' = Num(2)

\* C14: a call f(arg) stores the value of arg in the global variable x
\* before f's body is evaluated and does not restore it; inside the body of
\* g a reference to x evaluated after a nested call reads the nested
\* call's argument, and after the query x holds the argument of the call
\* evaluated last.
C14_OneSlotBinding == [][SlotStep]_vars

\* Reached: with f(x)=x^2 and g(x)=f(2)+x+0 stored, g(5) returned 6 and
\* left x = 2.
C14_Witness ==
  /\ log = <<Returned(DefineSquare, Num(0)), Returned(DefineOuter, Num(0)),
             Returned(CallOuter, Num(6))>>
  /\ hasVariable(symbolsTable, XName)
  /\ Slot = Num(2)

\* The brackets of a text match: scanning it, depth counts the brackets
\* open so far; no ")" comes at depth 0 and the scan ends at depth 0.
RECURSIVE BracketsMatch(_, _)
BracketsMatch(text, depth) ==
  IF text = << >> THEN depth = 0
  ELSE IF Head(text) = "(" THEN BracketsMatch(Tail(text), depth + 1)
  ELSE IF Head(text) = ")" THEN depth > 0 /\ BracketsMatch(Tail(text), depth - 1)
  ELSE BracketsMatch(Tail(text), depth)

\* C15: every line whose brackets do not match, an opening bracket never
\* closed ("(1+2") or a closing bracket with no opening partner ("1+2)",
\* "1)+5"), fails with "Unmatched brackets.".
C15_UnbalancedRejected ==
  \A i \in 1..Len(log) :
    (log[i].text \in BracketTexts /\ ~BracketsMatch(log[i].text, 0))
    => log[i] = Threw(log[i].text, Error("Unmatched brackets.", << >>))

\* The text with its white space taken out.
NotSpace(c) == c \notin WhiteSpace

WithoutSpace(text) == SelectSeq(text, NotSpace)

\* C16: white space added before the first token, between tokens or after
\* the last token changes nothing: tokenise yields the tokens of the line
\* without it, so that " 1+2" is tokenised, and evaluated, as "1+2" is.
C16_WhiteSpaceIgnored ==
  \A i \in 1..Len(log) :
    log[i].text \in SpaceTexts
    => /\ tokenise(log[i].text, callableNames(symbolsTable))
          = tokenise(WithoutSpace(log[i].text), callableNames(symbolsTable))
       /\ log[i] = Returned(log[i].text, Num(3))

\* The messages of the errors of the taxonomy: unknown token, symbol
\* lookup, symbol mutation, syntax, arithmetic.
TaxonomyMessages ==
  { "Unknown tokens in source.", "is not a stored variable",
    "is not a stored function", "Cannot modify", "Cannot divide by zero." }
    \cup SyntaxMessages

\* C17: every failure of run is one of the five errors of the taxonomy,
\* thrown by the engine; for no line, the empty line and an operand
\* followed by a function-call token included, does run fail by reading
\* the expression of a missing parse result.
C17_FailuresInTaxonomy ==
  \A i \in 1..Len(log) :
    ~log[i].ok
    => /\ log[i].err.msg \in TaxonomyMessages
       /\ log[i].err # TypeError.err

\* No name twice in a collection.
NamesUnique(entries) ==
  \A i, j \in 1..Len(entries) : entries[i].name = entries[j].name => i = j

\* No name both a variable and a callable.
NoSharedName ==
  \A i \in 1..Len(symbolsTable.variables) :
    \A j \in 1..Len(symbolsTable.callables) :
      symbolsTable.variables[i].name # symbolsTable.callables[j].name

\* C18: after any calls of run from the default table no name is in both
\* the variables and the callables ("pi(x)=1" and "sin=3" create no second
\* meaning of pi and sin), and each name occurs at most once in each
\* collection.
C18_NamesNotShared ==
  /\ NoSharedName
  /\ NamesUnique(symbolsTable.variables)
  /\ NamesUnique(symbolsTable.callables)

=============================================================================
